---------------------------- MODULE Spec2Model ----------------------------
(***************************************************************************)
(* Construction of S3DISSegDataset (mmdet3d/datasets/s3dis_dataset.py):    *)
(* normalisation of the per-area arguments, construction of one            *)
(* _S3DISSegDataset per annotation file, and the three concatenations      *)
(* (data_infos, scene_idxs with the running offset, label_weight).         *)
(***************************************************************************)
EXTENDS Integers, Sequences, FiniteSets, TLC

\* ------------------------------------------------------------------ bounds
MaxParts == 2      \* annotation files (areas) per composite
MaxScenes == 2     \* scenes per annotation file
MaxIdxLen == 2     \* length of a supplied sampling index
MaxW == 2          \* largest per-class label weight supplied

\* The class list the datasets are configured with (argument `classes`).
CLASSES == <<"ceiling", "floor">>

\* Annotation files, one per area.
Areas == <<"Area_1", "Area_2", "Area_3", "Area_4">>

\* ------------------------------------------------------------ python values
\* A value as Python's isinstance sees it: None, a str, a flat list/array of
\* numbers, or a list whose elements are str or list/array.
None == [tag |-> "none", ref |-> "", val |-> <<>>, items |-> <<>>]
Str(r) == [tag |-> "str", ref |-> r, val |-> <<>>, items |-> <<>>]
Arr(s) == [tag |-> "arr", ref |-> "", val |-> s, items |-> <<>>]
Lst(xs) == [tag |-> "list", ref |-> "", val |-> <<>>, items |-> xs]

Range(s) == {s[i] : i \in DOMAIN s}

RECURSIVE SeqsUpTo(_, _)
\* all sequences over S of length 0..n
SeqsUpTo(S, n) ==
    IF n = 0 THEN {<<>>}
    ELSE LET shorter == SeqsUpTo(S, n - 1)
         IN shorter \cup {Append(s, x) : s \in {t \in shorter : Len(t) = n - 1}, x \in S}

Max(S) == CHOOSE x \in S : \A y \in S : y <= x

RECURSIVE SumSeq(_)
SumSeq(s) == IF s = <<>> THEN 0 ELSE s[1] + SumSeq(Tail(s))

VARIABLES
    args,              \* the arguments of S3DISSegDataset.__init__ and the files on disk
    ann_files,         \* local of __init__ (line 223)
    scene_idxs,        \* local of __init__ (line 224)
    label_weights,     \* local of __init__ (line 225)
    datasets,          \* the _S3DISSegDataset objects built so far (line 241)
    self_data_infos,   \* self.data_infos
    self_scene_idxs,   \* self.scene_idxs
    self_label_weight, \* self.label_weight (float32)
    self_flag,         \* self.flag, set by _set_group_flag
    pc,                \* the statement of __init__ to run next
    err,               \* the exception that ended __init__, "" if none
    errAt,             \* the statement that raised it
    merged             \* the concat_* steps performed so far

vars == <<args, ann_files, scene_idxs, label_weights, datasets, self_data_infos,
          self_scene_idxs, self_label_weight, self_flag, pc, err, errAt, merged>>


test_mode == args.test_mode

\* ------------------------------------------------------------------ numpy
\* np.arange(n)
arange(n) == [i \in 1..n |-> i - 1]

\* np.load of a precomputed artifact: the file's content
np_load(ref) ==
    IF ref = "scene_idxs.npy" THEN args.npy_idx ELSE args.npy_weight

RECURSIVE Pow2(_)
Pow2(k) == IF k = 0 THEN 1 ELSE 2 * Pow2(k - 1)

\* float32 keeps a significand of 24 bits
MinSignificand == Pow2(23)
MaxSignificand == Pow2(24)

RECURSIVE Normalize(_, _, _)
\* the least k with n * 2^k >= lim, given s = n * 2^k0 and k = k0
Normalize(s, lim, k) ==
    IF s >= lim THEN k ELSE Normalize(2 * s, lim, k + 1)

\* A float32 is <<m, k>>: the value m * 2^-k with a 24-bit significand
\* 2^23 <= m < 2^24, or <<0, 0>> for zero.  The quotient n / d rounded to
\* the nearest float32, ties to even (0 <= n / d < 2^24).
RoundToFloat32(n, d) ==
    IF n = 0 THEN <<0, 0>>
    ELSE LET k == Normalize(n, d * MinSignificand, 0)
             s == n * Pow2(k)
             q == s \div d
             r == s % d
             m == IF 2 * r > d \/ (2 * r = d /\ q % 2 = 1) THEN q + 1 ELSE q
         IN IF m = MaxSignificand THEN <<MinSignificand, k - 1>> ELSE <<m, k>>

\* ndarray.astype(np.float32) of an integer-valued array
astype_float32(w) == [c \in DOMAIN w |-> RoundToFloat32(w[c], 1)]

\* ------------------------------------------- the single-area dataset (base)
\* The scene records an annotation file holds.
load_annotations(ann_file) ==
    [j \in 1..args.scenes[ann_file] |-> [ann |-> ann_file, scene |-> j - 1]]

\* Custom3DSegDataset.get_scene_idxs_and_label_weight: the sampling index and
\* the label weight of one area, resolved against its own scenes.
Custom3DSeg_get_scene_idxs_and_label_weight(data_infos, scene_idx, label_weight) ==
    LET idx == IF test_mode \/ scene_idx.tag = "none"
               THEN arange(Len(data_infos))
               ELSE IF scene_idx.tag = "str" THEN np_load(scene_idx.ref)
               ELSE scene_idx.val
        w == IF test_mode \/ label_weight.tag = "none"
             THEN [c \in DOMAIN CLASSES |-> 1]
             ELSE IF label_weight.tag = "str" THEN np_load(label_weight.ref)
             ELSE label_weight.val
    IN IF \E p \in DOMAIN idx : idx[p] < 0 \/ idx[p] >= Len(data_infos)
       THEN [err |-> "IndexRangeError", scene_idxs |-> <<>>, label_weight |-> <<>>]
       ELSE [err |-> "", scene_idxs |-> idx, label_weight |-> w]

\* (mutant) training without a sampling index falls through to the base class
get_scene_idxs_and_label_weight_noraise(data_infos, scene_idx, label_weight) ==
    Custom3DSeg_get_scene_idxs_and_label_weight(data_infos, scene_idx, label_weight)

\* _S3DISSegDataset.get_scene_idxs_and_label_weight
get_scene_idxs_and_label_weight(data_infos, scene_idx, label_weight) ==
    IF ~test_mode /\ scene_idx.tag = "none"
    THEN [err |-> "NotImplementedError", scene_idxs |-> <<>>, label_weight |-> <<>>]
    ELSE Custom3DSeg_get_scene_idxs_and_label_weight(data_infos, scene_idx, label_weight)

\* _S3DISSegDataset.__init__ -> Custom3DSegDataset.__init__: load the
\* annotations, then resolve the sampling index and the label weight.
Custom3DSeg_init(ann_file, scene_idx, label_weight) ==
    LET infos == load_annotations(ann_file)
        r == get_scene_idxs_and_label_weight(infos, scene_idx, label_weight)
    IN [err |-> r.err,
        data_infos |-> IF r.err = "" THEN infos ELSE <<>>,
        scene_idxs |-> r.scene_idxs,
        label_weight |-> r.label_weight]

\* ------------------------------------------------------- S3DISSegDataset
\* (mutant) wraps x in a list once, whatever num is
_duplicate_to_list_once(x, num) == Lst(<<x>>)

_duplicate_to_list(x, num) == Lst([i \in 1..num |-> x])

_check_ann_files(ann_file) ==
    IF ann_file.tag # "list" THEN _duplicate_to_list(ann_file, 1) ELSE ann_file

\* x[0] raises IndexError on an empty list or array
HasFirst(x) ==
    \/ x.tag = "arr" /\ x.val # <<>>
    \/ x.tag = "list" /\ x.items # <<>>

_check_scene_idxs(scene_idx, num) ==
    IF scene_idx.tag = "none"
    THEN [err |-> "", out |-> _duplicate_to_list(scene_idx, num)]
    ELSE IF scene_idx.tag = "str"
    THEN [err |-> "", out |-> _duplicate_to_list(scene_idx, num)]
    ELSE IF ~HasFirst(scene_idx)
    THEN [err |-> "IndexError", out |-> scene_idx]
    ELSE IF scene_idx.tag = "list" /\ scene_idx.items[1].tag = "str"
    THEN [err |-> "", out |-> scene_idx]
    ELSE IF scene_idx.tag = "list" /\ scene_idx.items[1].tag \in {"arr", "list"}
    THEN [err |-> "", out |-> scene_idx]
    ELSE [err |-> "", out |-> _duplicate_to_list(scene_idx, num)]

_check_label_weights(label_weight, num) ==
    IF label_weight.tag = "none"
    THEN [err |-> "", out |-> _duplicate_to_list(label_weight, num)]
    ELSE IF label_weight.tag = "str"
    THEN [err |-> "", out |-> _duplicate_to_list(label_weight, num)]
    ELSE IF ~HasFirst(label_weight)
    THEN [err |-> "IndexError", out |-> label_weight]
    ELSE IF label_weight.tag = "list" /\ label_weight.items[1].tag = "str"
    THEN [err |-> "", out |-> label_weight]
    ELSE IF label_weight.tag = "list" /\ label_weight.items[1].tag \in {"arr", "list"}
    THEN [err |-> "", out |-> label_weight]
    ELSE [err |-> "", out |-> _duplicate_to_list(label_weight, num)]

RECURSIVE concat_data_infos_rev(_)
\* (mutant) the areas' lists joined last area first
concat_data_infos_rev(data_infos) ==
    IF data_infos = <<>> THEN <<>>
    ELSE concat_data_infos_rev(Tail(data_infos)) \o Head(data_infos)

RECURSIVE concat_data_infos(_)
\* [info for one_data_infos in data_infos for info in one_data_infos]
concat_data_infos(data_infos) ==
    IF data_infos = <<>> THEN <<>>
    ELSE Head(data_infos) \o concat_data_infos(Tail(data_infos))

\* (mutant) the offset is the largest value merged, not one more
next_offset_noinc(a) ==
    IF a = <<>> THEN [err |-> "ValueError", offset |-> 0]
    ELSE [err |-> "", offset |-> Max(Range(a))]

\* (mutant) the offset leaves one position free after the largest value merged
next_offset_skip(a) ==
    IF a = <<>> THEN [err |-> "ValueError", offset |-> 0]
    ELSE [err |-> "", offset |-> Max(Range(a)) + 2]

\* np.unique(a).max() + 1, which raises ValueError on an empty array
next_offset(a) ==
    IF a = <<>> THEN [err |-> "ValueError", offset |-> 0]
    ELSE [err |-> "", offset |-> Max(Range(a)) + 1]

RECURSIVE concat_scene_idxs_loop(_, _, _)
\* the loop of concat_scene_idxs over the areas left, from self.scene_idxs = acc
concat_scene_idxs_loop(rest, acc, offset) ==
    IF rest = <<>> THEN [err |-> "", scene_idxs |-> acc]
    ELSE LET one_scene_idxs == Head(rest)
             cat == acc \o [p \in DOMAIN one_scene_idxs |-> one_scene_idxs[p] + offset]
             nxt == next_offset(cat)
         IN IF nxt.err # "" THEN [err |-> nxt.err, scene_idxs |-> cat]
            ELSE concat_scene_idxs_loop(Tail(rest), cat, nxt.offset)

RECURSIVE concat_scene_idxs_by_count_loop(_, _, _)
concat_scene_idxs_by_count_loop(k, idxs, acc) ==
    IF k > Len(idxs) THEN acc
    ELSE LET offset == SumSeq([j \in 1..(k - 1) |-> Len(datasets[j].data_infos)])
         IN concat_scene_idxs_by_count_loop(
                k + 1, idxs, acc \o [p \in DOMAIN idxs[k] |-> idxs[k][p] + offset])

\* (mutant) the offset of an area is the number of scenes of the areas before it
concat_scene_idxs_by_count(idxs) ==
    LET r == concat_scene_idxs_by_count_loop(1, idxs, <<>>)
    IN [err |-> IF r = <<>> THEN "ValueError" ELSE "", scene_idxs |-> r]

concat_scene_idxs(idxs) == concat_scene_idxs_loop(idxs, <<>>, 0)

\* (mutant) the mean weighted by each area's scene count
concat_label_weight_by_count(ws) ==
    LET cnt == [k \in DOMAIN ws |-> Len(datasets[k].data_infos)]
    IN [c \in DOMAIN CLASSES |->
           IF SumSeq(cnt) = 0 THEN RoundToFloat32(SumSeq([k \in DOMAIN ws |-> ws[k][c]]), Len(ws))
           ELSE RoundToFloat32(SumSeq([k \in DOMAIN ws |-> ws[k][c] * cnt[k]]), SumSeq(cnt))]

\* np.array(label_weights).mean(0).astype(np.float32)
concat_label_weight(ws) ==
    [c \in DOMAIN CLASSES |->
        RoundToFloat32(SumSeq([k \in DOMAIN ws |-> ws[k][c]]), Len(ws))]

\* Custom3DSegDataset._set_group_flag: one flag per merged scene
_set_group_flag(data_infos) == [j \in DOMAIN data_infos |-> 0]


\* _S3DISSegDataset(...): one area's dataset object, or the exception raised
_S3DISSegDataset(ann_file, scene_idx, label_weight) ==
    Custom3DSeg_init(ann_file, scene_idx, label_weight)

\* ------------------------------------------------------------------ inputs
AreaFiles == {Areas[k] : k \in 1..MaxParts}

\* ann_files for n areas: a list of paths, or one path when n = 1
AnnForms(n) ==
    {Lst([k \in 1..n |-> Str(Areas[k])])} \cup (IF n = 1 THEN {Str(Areas[1])} ELSE {})

\* every shape an optional per-area argument takes: absent, one reference,
\* an empty list, one array, or a list of 1..n+1 references or arrays
ShapeInputs(refs, arrs, n) ==
    {None, Arr(<<>>)} \cup refs \cup arrs
        \cup {Lst(xs) : xs \in SeqsUpTo(refs \cup arrs, n + 1) \ {<<>>}}

\* sampling indexes as the converter writes them: non-decreasing scene numbers
SortedIdxs ==
    {s \in SeqsUpTo(0..(MaxScenes - 1), MaxIdxLen) :
        \A p \in 1..(Len(s) - 1) : s[p] <= s[p + 1]}

WeightVectors == [DOMAIN CLASSES -> 0..MaxW]

ScenesOf(cnt) == [a \in AreaFiles |-> IF \E k \in DOMAIN cnt : Areas[k] = a
                                      THEN cnt[CHOOSE k \in DOMAIN cnt : Areas[k] = a]
                                      ELSE 0]

Input(ann, sidx, lw, tm, cnt, nidx, nw) ==
    [ann_files |-> ann, scene_idxs |-> sidx, label_weights |-> lw, test_mode |-> tm,
     scenes |-> ScenesOf(cnt), npy_idx |-> nidx, npy_weight |-> nw]

\* every shape of both optional arguments, over one-scene areas
ShapeFamily ==
    \E ann \in UNION {AnnForms(m) : m \in 1..MaxParts},
       sidx \in UNION {ShapeInputs({Str("scene_idxs.npy")}, {Arr(<<0>>)}, m) : m \in 1..MaxParts},
       lw \in UNION {ShapeInputs({Str("label_weight.npy")}, {Arr(<<1, 1>>)}, m) : m \in 1..MaxParts},
       tm \in BOOLEAN :
        args = Input(ann, sidx, lw, tm, [k \in 1..MaxParts |-> 1], <<0>>, <<2, 0>>)

\* an area of 0..MaxScenes scenes with a sampling index valid for it
AreaIdxs ==
    {pr \in (0..MaxScenes) \X SortedIdxs : \A p \in DOMAIN pr[2] : pr[2][p] < pr[1]}

\* per-area sampling indexes (training), or none (testing)
IndexFamily ==
    \E n \in 1..MaxParts, tm \in BOOLEAN :
        \E pr \in [1..n -> IF tm THEN (0..MaxScenes) \X {<<>>} ELSE AreaIdxs] :
            args = Input(Lst([k \in 1..n |-> Str(Areas[k])]),
                         IF tm THEN None ELSE Lst([k \in 1..n |-> Arr(pr[k][2])]),
                         None, tm, [k \in 1..n |-> pr[k][1]], <<>>, <<>>)

\* per-area label weights
WeightFamily ==
    \E n \in 1..MaxParts :
        \E w \in [1..n -> WeightVectors] :
            args = Input(Lst([k \in 1..n |-> Str(Areas[k])]), Str("scene_idxs.npy"),
                         Lst([k \in 1..n |-> Arr(w[k])]), FALSE, [k \in 1..n |-> 1],
                         <<0>>, <<>>)

TwoAreas == Lst(<<Str(Areas[1]), Str(Areas[2])>>)

\* two areas of 3 and 2 scenes with their indexes and weights; indexes that
\* are not sorted; an index that never reaches the last scene of its area;
\* an index that names a scene its area does not have
Examples ==
    args \in
    {Input(TwoAreas, Lst(<<Arr(<<0, 0, 1, 2>>), Arr(<<0, 1, 1>>)>>),
           Lst(<<Arr(<<1, 2>>), Arr(<<3, 0>>)>>), FALSE, <<3, 2>>, <<>>, <<>>),
     Input(TwoAreas, Lst(<<Arr(<<1, 0>>), Arr(<<1, 0, 1>>)>>),
           None, FALSE, <<2, 2>>, <<>>, <<>>),
     Input(TwoAreas, Lst(<<Arr(<<0, 0, 1>>), Arr(<<0>>)>>),
           None, FALSE, <<3, 1>>, <<>>, <<>>),
     Input(TwoAreas, Lst(<<Arr(<<0, 1>>), Arr(<<0, 2>>)>>),
           None, FALSE, <<2, 2>>, <<>>, <<>>)}

Inputs == ShapeFamily \/ IndexFamily \/ WeightFamily \/ Examples

\* ----------------------------------------------------------------- actions
Init ==
    /\ Inputs
    /\ ann_files = args.ann_files
    /\ scene_idxs = args.scene_idxs
    /\ label_weights = args.label_weights
    /\ datasets = <<>>
    /\ self_data_infos = <<>>
    /\ self_scene_idxs = <<>>
    /\ self_label_weight = <<>>
    /\ self_flag = <<>>
    /\ pc = "check"
    /\ err = ""
    /\ errAt = ""
    /\ merged = {}

Raise(e) ==
    /\ pc' = "error"
    /\ err' = e
    /\ errAt' = pc

\* lines 222-226: make ann_files, scene_idxs and label_weights lists
CheckArgs ==
    /\ pc = "check"
    /\ LET a == _check_ann_files(ann_files)
           s == _check_scene_idxs(scene_idxs, Len(a.items))
           l == _check_label_weights(label_weights, Len(a.items))
       IN IF s.err # "" THEN Raise(s.err) /\ UNCHANGED <<ann_files, scene_idxs, label_weights>>
          ELSE IF l.err # "" THEN Raise(l.err) /\ UNCHANGED <<ann_files, scene_idxs, label_weights>>
          ELSE /\ ann_files' = a
               /\ scene_idxs' = s.out
               /\ label_weights' = l.out
               /\ pc' = "super"
               /\ UNCHANGED <<err, errAt>>
    /\ UNCHANGED <<args, datasets, self_data_infos, self_scene_idxs, self_label_weight,
                   self_flag, merged>>

\* lines 228-239: initialise self as the dataset of ann_files[0]
SuperInit ==
    /\ pc = "super"
    /\ LET r == Custom3DSeg_init(ann_files.items[1].ref, scene_idxs.items[1],
                                 label_weights.items[1])
       IN IF r.err # ""
          THEN Raise(r.err) /\ UNCHANGED <<self_data_infos, self_scene_idxs, self_label_weight>>
          ELSE /\ self_data_infos' = r.data_infos
               /\ self_scene_idxs' = r.scene_idxs
               /\ self_label_weight' = astype_float32(r.label_weight)
               /\ pc' = "build"
               /\ UNCHANGED <<err, errAt>>
    /\ UNCHANGED <<args, ann_files, scene_idxs, label_weights, datasets, self_flag, merged>>

\* (mutant) an area that cannot be built is left out and the merge goes on
BuildDataset_skip_failed ==
    /\ pc = "build"
    /\ LET i == Len(datasets) + 1
           ok == /\ i <= Len(scene_idxs.items)
                 /\ i <= Len(label_weights.items)
                 /\ _S3DISSegDataset(ann_files.items[i].ref, scene_idxs.items[i],
                                     label_weights.items[i]).err = ""
       IN IF ok
          THEN /\ datasets' = Append(datasets,
                       _S3DISSegDataset(ann_files.items[i].ref, scene_idxs.items[i],
                                        label_weights.items[i]))
               /\ pc' = IF i = Len(ann_files.items) THEN "concat_data_infos" ELSE "build"
          ELSE /\ pc' = "concat_data_infos"
               /\ UNCHANGED datasets
    /\ UNCHANGED <<args, ann_files, scene_idxs, label_weights, self_data_infos,
                   self_scene_idxs, self_label_weight, self_flag, merged, err, errAt>>

\* lines 241-253: one element of the list comprehension, for i = len(datasets)
BuildDataset ==
    /\ pc = "build"
    /\ LET i == Len(datasets) + 1
       IN IF i > Len(scene_idxs.items) \/ i > Len(label_weights.items)
          THEN Raise("IndexError") /\ UNCHANGED datasets
          ELSE LET dst == _S3DISSegDataset(ann_files.items[i].ref, scene_idxs.items[i],
                                           label_weights.items[i])
               IN IF dst.err # ""
                  THEN Raise(dst.err) /\ UNCHANGED datasets
                  ELSE /\ datasets' = Append(datasets, dst)
                       /\ pc' = IF i = Len(ann_files.items) THEN "concat_data_infos" ELSE "build"
                       /\ UNCHANGED <<err, errAt>>
    /\ UNCHANGED <<args, ann_files, scene_idxs, label_weights, self_data_infos,
                   self_scene_idxs, self_label_weight, self_flag, merged>>

\* line 256
ConcatDataInfos ==
    /\ pc = "concat_data_infos"
    /\ self_data_infos' = concat_data_infos([k \in DOMAIN datasets |-> datasets[k].data_infos])
    /\ merged' = merged \cup {"data_infos"}
    /\ pc' = "concat_scene_idxs"
    /\ UNCHANGED <<args, ann_files, scene_idxs, label_weights, datasets, self_scene_idxs,
                   self_label_weight, self_flag, err, errAt>>

\* line 257
ConcatSceneIdxs ==
    /\ pc = "concat_scene_idxs"
    /\ LET r == concat_scene_idxs([k \in DOMAIN datasets |-> datasets[k].scene_idxs])
       IN /\ self_scene_idxs' = r.scene_idxs
          /\ IF r.err # "" THEN Raise(r.err) /\ UNCHANGED merged
             ELSE /\ merged' = merged \cup {"scene_idxs"}
                  /\ pc' = "concat_label_weight"
                  /\ UNCHANGED <<err, errAt>>
    /\ UNCHANGED <<args, ann_files, scene_idxs, label_weights, datasets, self_data_infos,
                   self_label_weight, self_flag>>

\* line 258
ConcatLabelWeight ==
    /\ pc = "concat_label_weight"
    /\ self_label_weight' =
           concat_label_weight([k \in DOMAIN datasets |-> datasets[k].label_weight])
    /\ merged' = merged \cup {"label_weight"}
    /\ pc' = "group_flag"
    /\ UNCHANGED <<args, ann_files, scene_idxs, label_weights, datasets, self_data_infos,
                   self_scene_idxs, self_flag, err, errAt>>

\* lines 260-262, and __init__ returns
SetGroupFlag ==
    /\ pc = "group_flag"
    /\ self_flag' = IF ~test_mode THEN _set_group_flag(self_data_infos) ELSE self_flag
    /\ merged' = IF ~test_mode THEN merged \cup {"group_flag"} ELSE merged
    /\ pc' = "done"
    /\ UNCHANGED <<args, ann_files, scene_idxs, label_weights, datasets, self_data_infos,
                   self_scene_idxs, self_label_weight, err, errAt>>

Next ==
    \/ CheckArgs
    \/ SuperInit
    \/ BuildDataset
    \/ ConcatDataInfos
    \/ ConcatSceneIdxs
    \/ ConcatLabelWeight
    \/ SetGroupFlag

Spec == Init /\ [][Next]_vars


\* ------------------------------------------------------------------ claims
\* the number N of annotation files given
NumAreas == IF args.ann_files.tag = "list" THEN Len(args.ann_files.items) ELSE 1

\* the scene count of area k
SceneCount(k) == args.scenes[Areas[k]]

\* where area k's scenes start in the merged list (0-based)
SceneStart(k) == SumSeq([j \in 1..(k - 1) |-> SceneCount(j)])

\* where area k's entries start in the merged sampling index (0-based)
IdxStart(k) == SumSeq([j \in 1..(k - 1) |-> Len(datasets[j].scene_idxs)])

\* every area built has scenes, and a sampling index of valid local offsets
AreasNonEmpty == \A k \in DOMAIN datasets : Len(datasets[k].data_infos) > 0

IdxsValid ==
    \A k \in DOMAIN datasets : \A q \in DOMAIN datasets[k].scene_idxs :
        /\ datasets[k].scene_idxs[q] >= 0
        /\ datasets[k].scene_idxs[q] < Len(datasets[k].data_infos)

\* C1: after construction, every entry of the merged sampling index that
\* comes from area k with local value v selects, in the merged scene list,
\* area k's scene v.
C1_EntryKeepsItsScene ==
    pc = "done" =>
        \A k \in DOMAIN datasets : \A q \in DOMAIN datasets[k].scene_idxs :
            LET g == self_scene_idxs[IdxStart(k) + q]
            IN /\ g + 1 \in DOMAIN self_data_infos
               /\ self_data_infos[g + 1] =
                      datasets[k].data_infos[datasets[k].scene_idxs[q] + 1]

\* C2: the merged sampling index holds, area after area, each local value
\* plus the running offset; the offset is 0 for the first area and, for each
\* later one, one more than the largest value merged before it.  Areas with
\* indexes [0,0,1,2] and [0,1,1] give [0,0,1,2,3,4,4].
C2_RunningMaxOffset ==
    "scene_idxs" \in merged =>
        /\ Len(self_scene_idxs) = IdxStart(Len(datasets) + 1)
        /\ \A k \in DOMAIN datasets : \A q \in DOMAIN datasets[k].scene_idxs :
               LET before == SubSeq(self_scene_idxs, 1, IdxStart(k))
                   offset == IF k = 1 THEN 0 ELSE 1 + Max(Range(before))
               IN self_scene_idxs[IdxStart(k) + q] = datasets[k].scene_idxs[q] + offset
        /\ (args.scene_idxs = Lst(<<Arr(<<0, 0, 1, 2>>), Arr(<<0, 1, 1>>)>>)
               => self_scene_idxs = <<0, 0, 1, 2, 3, 4, 4>>)

C2_Witness ==
    /\ pc = "done"
    /\ args.scene_idxs = Lst(<<Arr(<<0, 0, 1, 2>>), Arr(<<0, 1, 1>>)>>)
    /\ self_scene_idxs = <<0, 0, 1, 2, 3, 4, 4>>
    /\ Len(self_data_infos) = 5

\* area k's sampling index names area k's last scene
ReachesLastScene(k) ==
    \E q \in DOMAIN datasets[k].scene_idxs :
        datasets[k].scene_idxs[q] = Len(datasets[k].data_infos) - 1

\* C3 as stated: with non-empty areas and valid local offsets, the largest
\* merged index value is the last position of the merged scene list.
C3_MaxIsLastScene ==
    (pc = "done" /\ AreasNonEmpty /\ IdxsValid) =>
        Max(Range(self_scene_idxs)) = Len(self_data_infos) - 1

\* C3 amended: with non-empty areas and valid local offsets, the largest
\* merged index value is at most the last position of the merged scene list,
\* and equals it exactly when every area's sampling index names that area's
\* last scene.
C3_MaxIsLastSceneIffReached ==
    (pc = "done" /\ AreasNonEmpty /\ IdxsValid) =>
        /\ Max(Range(self_scene_idxs)) <= Len(self_data_infos) - 1
        /\ (Max(Range(self_scene_idxs)) = Len(self_data_infos) - 1
               <=> \A k \in DOMAIN datasets : ReachesLastScene(k))

C3_Witness ==
    /\ pc = "done"
    /\ ~test_mode
    /\ Len(datasets) = 2
    /\ AreasNonEmpty
    /\ \A k \in DOMAIN datasets : ReachesLastScene(k)
    /\ Len(self_data_infos) = 4
    /\ Max(Range(self_scene_idxs)) = 3

\* C4: the merged scene list is the areas' scene lists one after the other:
\* its length is the sum of the scene counts, and position start_k + j holds
\* area k's scene j.
C4_ScenesConcatenated ==
    "data_infos" \in merged =>
        /\ Len(self_data_infos) = SceneStart(NumAreas + 1)
        /\ \A k \in 1..NumAreas : \A j \in 0..(SceneCount(k) - 1) :
               self_data_infos[SceneStart(k) + j + 1] = [ann |-> Areas[k], scene |-> j]

C4_Witness ==
    /\ pc = "done"
    /\ NumAreas = 2
    /\ SceneCount(1) = 2
    /\ SceneCount(2) = 1
    /\ self_data_infos = <<[ann |-> Areas[1], scene |-> 0], [ann |-> Areas[1], scene |-> 1],
                           [ann |-> Areas[2], scene |-> 0]>>

\* C5: when every area's sampling index holds only valid local offsets,
\* every merged index value is at least 0 and less than the merged scene
\* count, the sum of the areas' scene counts.
C5_MergedIdxInRange ==
    ("scene_idxs" \in merged /\ IdxsValid) =>
        \A p \in DOMAIN self_scene_idxs :
            /\ self_scene_idxs[p] >= 0
            /\ self_scene_idxs[p] < Len(self_data_infos)
            /\ self_scene_idxs[p] < SceneStart(NumAreas + 1)

C5_Witness ==
    /\ pc = "done"
    /\ Len(datasets) = 2
    /\ ReachesLastScene(1)
    /\ ReachesLastScene(2)
    /\ Len(datasets[1].data_infos) = 2
    /\ \E p \in DOMAIN self_scene_idxs : self_scene_idxs[p] = Len(self_data_infos) - 1

\* the argument is already a per-area collection: its first element is a
\* str or a list/array
IsPerArea(x) == x.tag = "list" /\ x.items # <<>> /\ x.items[1].tag \in {"str", "arr", "list"}

\* C6: a per-area sampling-index or label-weight collection whose length is
\* not the number of annotation files never yields a constructed dataset.
C6_CardinalityMismatchFails ==
    (\/ IsPerArea(args.scene_idxs) /\ Len(args.scene_idxs.items) # NumAreas
     \/ IsPerArea(args.label_weights) /\ Len(args.label_weights.items) # NumAreas)
        => pc # "done"

\* C7: in training mode with no sampling index given, construction never
\* gets to build a dataset of an area: it ends in the error raised while
\* self is initialised (or while the arguments are checked).
C7_RaisesBeforeAnyArea ==
    (~test_mode /\ args.scene_idxs.tag = "none") =>
        /\ pc \in {"check", "super", "error"}
        /\ datasets = <<>>
        /\ merged = {}
        /\ (pc = "error" => errAt \in {"check", "super"})
        /\ (errAt = "super" => err = "NotImplementedError")

C7_Witness ==
    /\ ~test_mode
    /\ args.scene_idxs.tag = "none"
    /\ pc = "error"
    /\ errAt = "super"
    /\ err = "NotImplementedError"
    /\ datasets = <<>>

\* the sum over the areas of class c's label weight
WeightSum(c) == SumSeq([k \in DOMAIN datasets |-> datasets[k].label_weight[c]])

\* f is a float32 nearest to n / d
IsNearestFloat32(f, n, d) ==
    IF n = 0 THEN f = <<0, 0>>
    ELSE /\ f[1] >= MinSignificand
         /\ f[1] < MaxSignificand
         /\ LET diff == f[1] * d - n * Pow2(f[2])
            IN 2 * (IF diff < 0 THEN -diff ELSE diff) <= d

\* C8: the merged label weight is, class by class, the plain mean of the
\* areas' label weights (as float32), each area counting once whatever its
\* scene count; weights [1, 2] and [3, 0] give [2, 1].
C8_LabelWeightIsPlainMean ==
    "label_weight" \in merged =>
        /\ DOMAIN self_label_weight = DOMAIN CLASSES
        /\ \A c \in DOMAIN CLASSES :
               IsNearestFloat32(self_label_weight[c], WeightSum(c), Len(datasets))
        /\ (args.label_weights = Lst(<<Arr(<<1, 2>>), Arr(<<3, 0>>)>>)
               => self_label_weight = <<<<8388608, 22>>, <<8388608, 23>>>>)

C8_Witness ==
    /\ pc = "done"
    /\ args.label_weights = Lst(<<Arr(<<1, 2>>), Arr(<<3, 0>>)>>)
    /\ Len(datasets[1].data_infos) # Len(datasets[2].data_infos)
    /\ self_label_weight = <<<<8388608, 22>>, <<8388608, 23>>>>

\* the argument is absent or a single value, not a collection
IsSingle(x) == x.tag \in {"none", "str"} \/ (x.tag = "arr" /\ x.val # <<>>)

CheckPassed == pc # "check" /\ errAt # "check"

\* C9: once the arguments are checked, an absent or single sampling index
\* (label weight) has become a list of N entries, each the value given, and
\* every area built is the dataset that value yields.
C9_SingleValueReplicated ==
    CheckPassed =>
        /\ IsSingle(args.scene_idxs) =>
               /\ scene_idxs.tag = "list"
               /\ Len(scene_idxs.items) = NumAreas
               /\ \A i \in 1..NumAreas : scene_idxs.items[i] = args.scene_idxs
        /\ IsSingle(args.label_weights) =>
               /\ label_weights.tag = "list"
               /\ Len(label_weights.items) = NumAreas
               /\ \A i \in 1..NumAreas : label_weights.items[i] = args.label_weights
        /\ (IsSingle(args.scene_idxs) /\ IsSingle(args.label_weights)) =>
               \A i \in DOMAIN datasets :
                   datasets[i] = _S3DISSegDataset(Areas[i], args.scene_idxs, args.label_weights)

C9_Witness ==
    /\ pc = "done"
    /\ NumAreas = 2
    /\ args.scene_idxs = Str("scene_idxs.npy")
    /\ args.label_weights = Arr(<<1, 1>>)
    /\ Len(datasets) = 2
    /\ scene_idxs.items = <<Str("scene_idxs.npy"), Str("scene_idxs.npy")>>
    /\ label_weights.items = <<Arr(<<1, 1>>), Arr(<<1, 1>>)>>

\* C10: no merge step has run unless all N areas were built; a construction
\* that fails before the merge has merged nothing; a construction that
\* returns has run every merge step.
C10_AllOrNothing ==
    /\ merged # {} => (Len(datasets) = NumAreas /\ errAt \notin {"check", "super", "build"})
    /\ pc \in {"concat_data_infos", "concat_scene_idxs", "concat_label_weight",
               "group_flag", "done"} => Len(datasets) = NumAreas
    /\ (pc = "error" /\ errAt \in {"check", "super", "build"}) =>
           (merged = {} /\ self_flag = <<>>)
    /\ pc = "done" =>
           /\ err = ""
           /\ {"data_infos", "scene_idxs", "label_weight"} \subseteq merged
           /\ (~test_mode => "group_flag" \in merged)

C10_Witness ==
    /\ pc = "error"
    /\ errAt = "build"
    /\ Len(datasets) >= 1
    /\ Len(datasets) < NumAreas
    /\ merged = {}

=============================================================================
